---- MODULE Spec2Model ----
(***************************************************************************)
(* State-machine model of src/src/wasm/src/lib.rs: the Arrow ingestion     *)
(* handlers (append_chunk, parse_arrow_replay) and the service rotation    *)
(* scheduler (start_service_animation, render_replay, the setTimeout       *)
(* callback of schedule_next_service_transition, stop_animation,           *)
(* render_service_by_index, get_service_count) over the four thread_local  *)
(* cells GPU_RENDERER, REPLAY_DATA, ANIMATION_RUNNING, LAST_SERVICE_COUNT. *)
(*                                                                         *)
(* An Option<T> cell is a sequence of length 0 (None) or 1 (Some).         *)
(* Positions are in hundredths (f32 0.3 -> 30, 0.15 -> 15).                *)
(* `timers` counts the setTimeout callbacks pending (the closures capture  *)
(* nothing, so they are all alike); `clock` is what chrono::Utc::now()     *)
(* returns.  surface.get_current_texture() is an input of every handler    *)
(* that draws.  hello, add, greet, alloc and free touch none of the cells  *)
(* and are left out.                                                       *)
(*                                                                         *)
(* Every handler runs to completion (single-threaded wasm), so each is one *)
(* action, taken when the event loop is idle.  `last` records the handler  *)
(* that has just run, its arguments and what it produced (return value,    *)
(* logged added_count, draws) and `pre` the cells before it ran, until     *)
(* control is back in the event loop (Return).                             *)
(***************************************************************************)
EXTENDS Integers, Sequences, FiniteSets, TLC

VARIABLES GPU_RENDERER, REPLAY_DATA, ANIMATION_RUNNING, LAST_SERVICE_COUNT,
          timers, clock, last, pre

cells == <<GPU_RENDERER, REPLAY_DATA, ANIMATION_RUNNING, LAST_SERVICE_COUNT, timers>>
vars == <<GPU_RENDERER, REPLAY_DATA, ANIMATION_RUNNING, LAST_SERVICE_COUNT,
          timers, clock, last, pre>>

----
(* Bounds of the model *)

\* size of a chunk (its record batches plus the rows of their id columns)
MaxChunkSize == 4
\* rows of a one-batch chunk, where ingestion interleaves with the scheduler
MaxRows == 2
\* values the clock (chrono::Utc::now) returns: 0..MaxTime
MaxTime == 1
\* setTimeout callbacks pending at once
MaxTimers == 2
\* service_index arguments of render_service_by_index: 0..MaxIndex
MaxIndex == 5

\* the id values that occur in chunks
Ids == {"a", "b", "c"}

----
(* Program constants *)

\* x: (i as f32 * 0.3) - (len as f32 * 0.15), in hundredths
Spacing == 30
HalfSpacing == 15

\* the error strings the handlers return
ErrCreateReader == "Failed to create Arrow reader"
ErrReadBatch == "Failed to read batch"
ErrNoReplayData == "No replay data loaded"
ErrNoServices == "No services available"
ErrNotInitialized == "WebGPU not initialized"
ErrSurfaceTexture == "Failed to get surface texture"
Ok == "Ok"

----
(* Sequences *)

Range(s) == {s[i] : i \in 1..Len(s)}

SeqsUpTo(S, n) == UNION {[1..k -> S] : k \in 0..n}

IsPrefix(s, t) == Len(s) <= Len(t) /\ \A i \in 1..Len(s) : s[i] = t[i]

NoDup(s) == \A i, j \in 1..Len(s) : s[i] = s[j] => i = j

\* Option<T>
None == <<>>
Some(x) == <<x>>

----
(* Chunks: what FileReader yields for the bytes of one call *)

\* one item of the reader: a batch whose "id" column is a StringArray with
\* the values `ids`, a batch without such a column, or a read error
IdBatch(ids) == [kind |-> "ids", ids |-> ids]
NoIdBatch == [kind |-> "noid", ids |-> <<>>]
ErrBatch == [kind |-> "err", ids |-> <<>>]

\* the batches of size n: one for the batch plus one per row
BatchesOfSize(n) ==
    {IdBatch(ids) : ids \in [1..(n - 1) -> Ids]} \cup (IF n = 1 THEN {NoIdBatch} ELSE {})

\* the sequences of readable batches of size n
RECURSIVE BatchSeqsOfSize(_)
BatchSeqsOfSize(n) ==
    IF n = 0 THEN {<<>>}
    ELSE UNION {{<<b>> \o rest : b \in BatchesOfSize(k), rest \in BatchSeqsOfSize(n - k)}
                  : k \in 1..n}

\* the reader stops at the first error, so an error item is the last one read
BatchSeqs(size) ==
    UNION {BatchSeqsOfSize(n) : n \in 0..size}
      \cup UNION {{Append(bs, ErrBatch) : bs \in BatchSeqsOfSize(n)} : n \in 0..(size - 1)}

\* open = FALSE: FileReader::try_new fails
Chunk(open, batches) == [open |-> open, batches |-> batches]
BadBytes == Chunk(FALSE, <<>>)
Chunks == {BadBytes} \cup {Chunk(TRUE, bs) : bs \in BatchSeqs(MaxChunkSize)}

\* the chunks of at most one batch of at most MaxRows rows
SmallChunks ==
    {BadBytes, Chunk(TRUE, <<>>), Chunk(TRUE, <<ErrBatch>>), Chunk(TRUE, <<NoIdBatch>>)}
      \cup {Chunk(TRUE, <<IdBatch(ids)>>) : ids \in SeqsUpTo(Ids, MaxRows)}

\* the chunks of at most one batch of at most one row, and the chunks whose
\* reader fails after a batch of one row
TimedChunks ==
    {BadBytes, Chunk(TRUE, <<>>), Chunk(TRUE, <<ErrBatch>>), Chunk(TRUE, <<NoIdBatch>>),
     Chunk(TRUE, <<IdBatch(<<>>)>>)}
      \cup {Chunk(TRUE, <<IdBatch(<<id>>)>>) : id \in Ids}
      \cup {Chunk(TRUE, <<IdBatch(<<id>>), ErrBatch>>) : id \in Ids}

----
(* REPLAY_DATA *)

\* ServiceNode { id, x, y, status } as built by the four map closures of
\* append_chunk and parse_arrow_replay: entry i (0-based) of `len` entries
ServiceNode(id, i, len) ==
    [id |-> id, x |-> (i * Spacing) - (len * HalfSpacing), y |-> 0, status |-> "healthy"]

\* ids.iter().enumerate().map(|(i, id)| ServiceNode {..}).collect()
GenerateServices(ids) == [k \in 1..Len(ids) |-> ServiceNode(ids[k], k - 1, Len(ids))]

ReplayData(services, all_service_ids, timestamp, job_id) ==
    [services |-> services, all_service_ids |-> all_service_ids,
     timestamp |-> timestamp, job_id |-> job_id]

\* r.borrow().as_ref().map(|data| data.services.clone()).unwrap_or_default()
ServicesOf(cell) == IF cell = None THEN <<>> ELSE cell[1].services

\* the ids recorded in a REPLAY_DATA cell (none while the cell is None)
AllServiceIdsOf(cell) == IF cell = None THEN <<>> ELSE cell[1].all_service_ids

----
(* Reading a chunk: the `for maybe_batch in reader` loop *)

\* (mutant of ReadValue: job_id follows the values that are new to the file only)
ReadValueJobIdOfNew(acc, id) ==
    [new_service_ids |-> IF id \in acc.unique_ids THEN acc.new_service_ids
                         ELSE Append(acc.new_service_ids, id),
     unique_ids |-> acc.unique_ids \cup {id},
     job_id |-> IF id \in acc.unique_ids THEN acc.job_id ELSE id]

\* (mutant of ReadValue: every value is pushed, seen before or not)
ReadValueNoDedup(acc, id) ==
    [new_service_ids |-> Append(acc.new_service_ids, id),
     unique_ids |-> acc.unique_ids \cup {id},
     job_id |-> id]

\* if unique_ids.insert(id) { new_service_ids.push(id) }; job_id = id
\* acc = [new_service_ids, unique_ids, job_id]
ReadValue(acc, id) ==
    [new_service_ids |-> IF id \in acc.unique_ids THEN acc.new_service_ids
                         ELSE Append(acc.new_service_ids, id),
     unique_ids |-> acc.unique_ids \cup {id},
     job_id |-> id]

\* for i in 0..id_array.len(): rows i..len of one id column
RECURSIVE ReadRows(_, _, _)
ReadRows(acc, ids, i) ==
    IF i > Len(ids) THEN acc ELSE ReadRows(ReadValue(acc, ids[i]), ids, i + 1)

\* (mutant of ReadBatches: a batch without an id column is an error)
RECURSIVE ReadBatchesStrict(_, _, _)
ReadBatchesStrict(acc, batches, k) ==
    IF k > Len(batches) THEN [ok |-> TRUE, acc |-> acc]
    ELSE IF batches[k].kind = "ids"
         THEN ReadBatchesStrict(ReadRows(acc, batches[k].ids, 1), batches, k + 1)
    ELSE [ok |-> FALSE, acc |-> acc]

\* batches k.. of the reader; ok = FALSE when a batch fails to read (the `?`)
RECURSIVE ReadBatches(_, _, _)
ReadBatches(acc, batches, k) ==
    IF k > Len(batches) THEN [ok |-> TRUE, acc |-> acc]
    ELSE IF batches[k].kind = "err" THEN [ok |-> FALSE, acc |-> acc]
    ELSE IF batches[k].kind = "ids"
         THEN ReadBatches(ReadRows(acc, batches[k].ids, 1), batches, k + 1)
    ELSE ReadBatches(acc, batches, k + 1)

EmptyAcc == [new_service_ids |-> <<>>, unique_ids |-> {}, job_id |-> ""]

\* the parse phase of both handlers: the error returned, or the values collected
ParseChunk(chunk) ==
    IF ~chunk.open THEN [result |-> ErrCreateReader, acc |-> EmptyAcc]
    ELSE LET r == ReadBatches(EmptyAcc, chunk.batches, 1)
         IN  [result |-> IF r.ok THEN Ok ELSE ErrReadBatch, acc |-> r.acc]

----
(* Merging into existing state *)

\* (mutant of MergeId: a new id is inserted in front of the recorded ones)
MergeIdInFront(m, new_id) ==
    IF new_id \in m.seen THEN m
    ELSE [ids |-> <<new_id>> \o m.ids, seen |-> m.seen \cup {new_id},
          added |-> m.added + 1]

\* (mutant of MergeId: the id is pushed without asking all_existing_ids)
MergeIdAlways(m, new_id) ==
    [ids |-> Append(m.ids, new_id), seen |-> m.seen \cup {new_id}, added |-> m.added + 1]

\* for new_id in new_service_ids {
\*     if all_existing_ids.insert(new_id) { all_service_ids.push(new_id); added += 1 } }
\* m = [ids, seen, added]
MergeId(m, new_id) ==
    IF new_id \in m.seen THEN m
    ELSE [ids |-> Append(m.ids, new_id), seen |-> m.seen \cup {new_id},
          added |-> m.added + 1]

RECURSIVE MergeLoop(_, _, _)
MergeLoop(m, new_service_ids, i) ==
    IF i > Len(new_service_ids) THEN m
    ELSE MergeLoop(MergeId(m, new_service_ids[i]), new_service_ids, i + 1)

\* (mutant of MergeIds: the ids of the file replace the recorded ones)
ReplaceIds(all_service_ids, new_service_ids) ==
    [ids |-> new_service_ids, seen |-> Range(new_service_ids),
     added |-> Len(new_service_ids)]

MergeIds(all_service_ids, new_service_ids) ==
    MergeLoop([ids |-> all_service_ids, seen |-> Range(all_service_ids), added |-> 0],
              new_service_ids, 1)

\* (mutant of MergedServices: nodes are pushed for the new ids, the nodes there
\* keep the positions they had)
ExtendServices(existing_data, m) ==
    existing_data.services
      \o [k \in 1..m.added |->
            ServiceNode(m.ids[Len(existing_data.services) + k],
                        Len(existing_data.services) + k - 1, Len(m.ids))]

\* (mutant of MergedServices: services is never regenerated)
KeepServices(existing_data, m) == existing_data.services

\* (mutant of MergedServices: services is regenerated from the ids the file
\* added, not from all of all_service_ids)
ServicesOfAdded(existing_data, m) ==
    IF m.added > 0
    THEN GenerateServices(SubSeq(m.ids, Len(m.ids) - m.added + 1, Len(m.ids)))
    ELSE existing_data.services

\* if added_new > 0 { existing_data.services = regenerate }
MergedServices(existing_data, m) ==
    IF m.added > 0 THEN GenerateServices(m.ids) ELSE existing_data.services

\* (mutant of AppendToReplayData: the timestamp is refreshed with the services,
\* only when ids were added)
AppendRefreshingOnChange(cell, new_service_ids, now) ==
    IF cell # None
    THEN LET existing_data == cell[1]
             m == MergeIds(existing_data.all_service_ids, new_service_ids)
         IN  [cell |-> Some(ReplayData(MergedServices(existing_data, m), m.ids,
                                       IF m.added > 0 THEN now
                                       ELSE existing_data.timestamp,
                                       existing_data.job_id)),
              added |-> m.added]
    ELSE [cell |-> Some(ReplayData(GenerateServices(new_service_ids), new_service_ids, now,
                                   IF new_service_ids = <<>> THEN ""
                                   ELSE new_service_ids[1])),
          added |-> Len(new_service_ids)]

\* (mutant of AppendToReplayData: the merge path sets job_id as the first-call
\* path does)
AppendSettingJobId(cell, new_service_ids, now) ==
    LET first == IF new_service_ids = <<>> THEN "" ELSE new_service_ids[1]
    IN  IF cell # None
        THEN LET existing_data == cell[1]
                 m == MergeIds(existing_data.all_service_ids, new_service_ids)
             IN  [cell |-> Some(ReplayData(MergedServices(existing_data, m), m.ids,
                                           now, first)),
                  added |-> m.added]
        ELSE [cell |-> Some(ReplayData(GenerateServices(new_service_ids),
                                       new_service_ids, now, first)),
              added |-> Len(new_service_ids)]

\* append_chunk's REPLAY_DATA.with closure: the new cell and added_count
AppendToReplayData(cell, new_service_ids, now) ==
    IF cell # None
    THEN LET existing_data == cell[1]
             m == MergeIds(existing_data.all_service_ids, new_service_ids)
         IN  [cell |-> Some(ReplayData(MergedServices(existing_data, m), m.ids,
                                       now, existing_data.job_id)),
              added |-> m.added]
    ELSE [cell |-> Some(ReplayData(GenerateServices(new_service_ids), new_service_ids, now,
                                   IF new_service_ids = <<>> THEN ""
                                   ELSE new_service_ids[1])),
          added |-> Len(new_service_ids)]

\* (mutant of MergeIntoReplayData: the file replaces what is recorded)
ReplaceReplayData(cell, new_service_ids, job_id, now) ==
    Some(ReplayData(GenerateServices(new_service_ids), new_service_ids, now, job_id))

\* (mutant of MergeIntoReplayData: a file without an id value leaves the job_id
\* recorded before)
MergeKeepingJobId(cell, new_service_ids, job_id, now) ==
    IF cell # None
    THEN LET existing_data == cell[1]
             m == MergeIds(existing_data.all_service_ids, new_service_ids)
         IN  Some(ReplayData(MergedServices(existing_data, m), m.ids, now,
                             IF job_id = "" THEN existing_data.job_id ELSE job_id))
    ELSE Some(ReplayData(GenerateServices(new_service_ids), new_service_ids, now, job_id))

\* parse_arrow_replay's REPLAY_DATA.with closure: the new cell (also the value returned)
MergeIntoReplayData(cell, new_service_ids, job_id, now) ==
    IF cell # None
    THEN LET existing_data == cell[1]
             m == MergeIds(existing_data.all_service_ids, new_service_ids)
         IN  Some(ReplayData(MergedServices(existing_data, m), m.ids, now, job_id))
    ELSE Some(ReplayData(GenerateServices(new_service_ids), new_service_ids, now, job_id))

\* append_chunk on a REPLAY_DATA cell: what it returns and the cell after it
AppendChunkOn(cell, chunk, now) ==
    LET p == ParseChunk(chunk)
    IN  [result |-> p.result,
         cell |-> IF p.result = Ok
                  THEN AppendToReplayData(cell, p.acc.new_service_ids, now).cell
                  ELSE cell]

\* parse_arrow_replay on a REPLAY_DATA cell: what it returns and the cell after it
ParseArrowReplayOn(cell, chunk, now) ==
    LET p == ParseChunk(chunk)
    IN  [result |-> p.result,
         cell |-> IF p.result = Ok
                  THEN MergeIntoReplayData(cell, p.acc.new_service_ids, p.acc.job_id, now)
                  ELSE cell]

----
(* GPU_RENDERER and drawing *)

Renderer(current_service_index) == [current_service_index |-> current_service_index]

\* r.borrow().as_ref().map(|renderer| renderer.current_service_index).unwrap_or(0)
CurrentIndexOf(cell) == IF cell = None THEN 0 ELSE cell[1].current_service_index

\* if let Some(renderer) = r.borrow_mut().as_mut() { renderer.current_service_index = i }
SetIndex(cell, i) == IF cell = None THEN None ELSE Some(Renderer(i))

\* what reaches the canvas
DrawNode(service) == [what |-> "node", node |-> Some(service)]
DrawClear == [what |-> "clear", node |-> None]

\* the GPU_RENDERER.with closure of render_service_node and clear_canvas:
\* texture = the outcome of surface.get_current_texture()
GpuResult(cell, texture) ==
    IF cell = None THEN ErrNotInitialized
    ELSE IF ~texture THEN ErrSurfaceTexture
    ELSE Ok

\* render_service_node(service)
RenderServiceNode(cell, service, texture) ==
    LET r == GpuResult(cell, texture)
    IN  [result |-> r, draws |-> IF r = Ok THEN <<DrawNode(service)>> ELSE <<>>]

\* clear_canvas()
ClearCanvasOn(cell, texture) ==
    LET r == GpuResult(cell, texture)
    IN  [result |-> r, draws |-> IF r = Ok THEN <<DrawClear>> ELSE <<>>]

\* (mutant of RenderCurrentService: the first service is rendered, whatever the
\* index)
RenderFirstService(gpu, replay, texture) ==
    LET services == ServicesOf(replay)
    IN  IF services = <<>> THEN <<>>
        ELSE RenderServiceNode(gpu, services[1], texture).draws

\* render_current_service(): what it draws (it returns nothing and logs errors)
RenderCurrentService(gpu, replay, texture) ==
    LET services == ServicesOf(replay)
        current_index == CurrentIndexOf(gpu)
    IN  IF services = <<>> THEN <<>>
        ELSE IF current_index < Len(services)
             THEN RenderServiceNode(gpu, services[current_index + 1], texture).draws
        ELSE <<>>

----
(* The rotation scheduler *)

\* (mutant of NextIndex: the index is advanced without the modulo)
NextIndexNoWrap(current_service_index, len) == current_service_index + 1

\* renderer.current_service_index = (renderer.current_service_index + 1) % services.len()
NextIndex(current_service_index, len) == (current_service_index + 1) % len

\* (mutant of ActualIndex: the index is clamped to the last service)
ActualIndexClamped(service_index, len) ==
    IF service_index < len THEN service_index ELSE len - 1

\* let actual_index = service_index % services.len()
ActualIndex(service_index, len) == service_index % len

\* (mutant of StartFromStopped: no `if services.len() == 1`, the loop is started
\* for a single service too)
StartAlwaysLooping(gpu, replay, armed, texture) ==
    [gpu |-> SetIndex(gpu, 0), running |-> TRUE, armed |-> armed + 1, result |-> Ok,
     draws |-> RenderCurrentService(SetIndex(gpu, 0), replay, texture)]

\* start_service_animation() past its two early returns: reset the index, set the
\* flag, then render the single service or start the loop
StartFromStopped(gpu, replay, armed, texture) ==
    LET services == ServicesOf(replay)
        reset == SetIndex(gpu, 0)
    IN  IF Len(services) = 1
        THEN LET r == RenderServiceNode(reset, services[1], texture)
             IN  [gpu |-> reset, running |-> TRUE, armed |-> armed,
                  result |-> r.result, draws |-> r.draws]
        ELSE \* start_self_managing_loop(): render_current_service(), then
             \* schedule_next_service_transition()
             [gpu |-> reset, running |-> TRUE, armed |-> armed + 1, result |-> Ok,
              draws |-> RenderCurrentService(reset, replay, texture)]

\* a handler that returns `result` and touches nothing
Untouched(gpu, running, armed, result) ==
    [gpu |-> gpu, running |-> running, armed |-> armed, result |-> result,
     draws |-> <<>>]

\* (mutant of StartServiceAnimationOn: no `if is_running` early return)
StartIgnoringRunning(gpu, replay, running, armed, texture) ==
    IF ServicesOf(replay) = <<>> THEN Untouched(gpu, running, armed, ErrNoReplayData)
    ELSE StartFromStopped(gpu, replay, armed, texture)

\* (mutant of StartServiceAnimationOn: no `if services.is_empty()` early return)
StartIgnoringEmpty(gpu, replay, running, armed, texture) ==
    IF running THEN Untouched(gpu, running, armed, Ok)
    ELSE StartFromStopped(gpu, replay, armed, texture)

\* (mutant of StartServiceAnimationOn: the flag is set before services is looked
\* at)
StartSettingFlagFirst(gpu, replay, running, armed, texture) ==
    IF running THEN Untouched(gpu, running, armed, Ok)
    ELSE IF ServicesOf(replay) = <<>> THEN Untouched(gpu, TRUE, armed, ErrNoReplayData)
    ELSE StartFromStopped(gpu, replay, armed, texture)

\* start_service_animation() on the cells given: the cells after it, what it
\* returns and what it draws
StartServiceAnimationOn(gpu, replay, running, armed, texture) ==
    IF running THEN Untouched(gpu, running, armed, Ok)
    ELSE IF ServicesOf(replay) = <<>> THEN Untouched(gpu, running, armed, ErrNoReplayData)
    ELSE StartFromStopped(gpu, replay, armed, texture)

\* (mutant of RenderServiceByIndexOn: no services is a silent return, as in
\* render_current_service)
RenderByIndexLenient(gpu, replay, service_index, texture) ==
    LET services == ServicesOf(replay)
    IN  IF services = <<>> THEN [result |-> Ok, draws |-> <<>>]
        ELSE RenderServiceNode(gpu,
                               services[ActualIndex(service_index, Len(services)) + 1],
                               texture)

\* render_service_by_index(service_index): what it returns and what it draws
RenderServiceByIndexOn(gpu, replay, service_index, texture) ==
    LET services == ServicesOf(replay)
    IN  IF services = <<>> THEN [result |-> ErrNoServices, draws |-> <<>>]
        ELSE RenderServiceNode(gpu,
                               services[ActualIndex(service_index, Len(services)) + 1],
                               texture)

\* (mutant of Transition: the closure does not schedule the next transition)
TransitionOnce(gpu, replay, clear_texture, render_texture) ==
    LET services == ServicesOf(replay)
        advanced == SetIndex(gpu, NextIndex(CurrentIndexOf(gpu), Len(services)))
    IN  [gpu |-> advanced, running |-> TRUE, rearmed |-> FALSE,
         draws |-> ClearCanvasOn(advanced, clear_texture).draws
                     \o RenderCurrentService(advanced, replay, render_texture)]

\* (mutant of Transition: the node is rendered before the index is advanced)
TransitionRenderThenAdvance(gpu, replay, clear_texture, render_texture) ==
    LET services == ServicesOf(replay)
    IN  [gpu |-> SetIndex(gpu, NextIndex(CurrentIndexOf(gpu), Len(services))),
         running |-> TRUE, rearmed |-> Len(services) > 0,
         draws |-> ClearCanvasOn(gpu, clear_texture).draws
                     \o RenderCurrentService(gpu, replay, render_texture)]

\* the timer closure past its two early returns: advance the index, clear, render,
\* arm the next timer
Transition(gpu, replay, clear_texture, render_texture) ==
    LET services == ServicesOf(replay)
        advanced == SetIndex(gpu, NextIndex(CurrentIndexOf(gpu), Len(services)))
    IN  [gpu |-> advanced, running |-> TRUE, rearmed |-> Len(services) > 0,
         draws |-> ClearCanvasOn(advanced, clear_texture).draws
                     \o RenderCurrentService(advanced, replay, render_texture)]

\* (mutant of TimerCallbackOn: the closure does not look at ANIMATION_RUNNING)
TimerIgnoringFlag(gpu, replay, running, clear_texture, render_texture) ==
    IF ServicesOf(replay) = <<>>
    THEN [gpu |-> gpu, running |-> FALSE, rearmed |-> FALSE, draws |-> <<>>]
    ELSE Transition(gpu, replay, clear_texture, render_texture)

\* the closure schedule_next_service_transition() hands to setTimeout: the cells
\* after it has run, whether it armed a new timer, what it drew
TimerCallbackOn(gpu, replay, running, clear_texture, render_texture) ==
    IF ~running
    THEN [gpu |-> gpu, running |-> FALSE, rearmed |-> FALSE, draws |-> <<>>]
    ELSE IF ServicesOf(replay) = <<>>
    THEN [gpu |-> gpu, running |-> FALSE, rearmed |-> FALSE, draws |-> <<>>]
    ELSE Transition(gpu, replay, clear_texture, render_texture)

----
(* History: the handler that has just run and the cells before it *)

Cells == [GPU_RENDERER |-> GPU_RENDERER, REPLAY_DATA |-> REPLAY_DATA,
          ANIMATION_RUNNING |-> ANIMATION_RUNNING,
          LAST_SERVICE_COUNT |-> LAST_SERVICE_COUNT, timers |-> timers]

\* op: the handler; chunk, now, service_index: its inputs; result: what it returned
\* (Ok or the error string); added: the added_count it logged; count: the usize it
\* returned; returned: the ReplayData it returned; draws: what it drew, in order
Call(op) == [op |-> op, chunk |-> BadBytes, now |-> 0, service_index |-> 0,
             result |-> Ok, added |-> 0, count |-> 0, returned |-> None,
             draws |-> <<>>]

\* no handler is running: control is in the event loop
Idle == Call("idle")

----
(* Handlers *)

Init ==
    /\ GPU_RENDERER = None
    /\ REPLAY_DATA = None
    /\ ANIMATION_RUNNING = FALSE
    /\ LAST_SERVICE_COUNT = 0
    /\ timers = 0
    /\ clock = 0
    /\ last = Idle
    /\ pre = Cells

\* the handler has returned: back in the event loop
Return ==
    /\ last # Idle
    /\ last' = Idle
    /\ pre' = Cells
    /\ UNCHANGED <<cells, clock>>

\* time passes
Tick ==
    /\ last = Idle
    /\ clock < MaxTime
    /\ clock' = clock + 1
    /\ UNCHANGED <<cells, last, pre>>

\* init_webgpu(canvas): stores the renderer when every step before succeeded
InitWebgpu(ok) ==
    /\ last = Idle
    /\ GPU_RENDERER' = IF ok THEN Some(Renderer(0)) ELSE GPU_RENDERER
    /\ UNCHANGED <<REPLAY_DATA, ANIMATION_RUNNING, LAST_SERVICE_COUNT, timers, clock>>
    /\ last' = [Call("init_webgpu") EXCEPT
                  !.result = IF ok THEN Ok ELSE "Failed to initialize"]
    /\ pre' = Cells

\* (mutant of AppendChunk: what was read before the failure is merged, and the
\* timestamp refreshed, before the error is returned)
AppendChunkEager(chunk) ==
    LET p == ParseChunk(chunk)
        a == AppendToReplayData(REPLAY_DATA, p.acc.new_service_ids, clock)
    IN  /\ last = Idle
        /\ REPLAY_DATA' = a.cell
        /\ UNCHANGED <<GPU_RENDERER, ANIMATION_RUNNING, LAST_SERVICE_COUNT, timers, clock>>
        /\ last' = [Call("append_chunk") EXCEPT
                      !.chunk = chunk, !.now = clock, !.result = p.result,
                      !.added = IF p.result = Ok THEN a.added ELSE 0]
        /\ pre' = Cells

\* append_chunk(ptr, len)
AppendChunk(chunk) ==
    LET p == ParseChunk(chunk)
        a == AppendToReplayData(REPLAY_DATA, p.acc.new_service_ids, clock)
    IN  /\ last = Idle
        /\ REPLAY_DATA' = IF p.result = Ok THEN a.cell ELSE REPLAY_DATA
        /\ UNCHANGED <<GPU_RENDERER, ANIMATION_RUNNING, LAST_SERVICE_COUNT, timers, clock>>
        /\ last' = [Call("append_chunk") EXCEPT
                      !.chunk = chunk, !.now = clock, !.result = p.result,
                      !.added = IF p.result = Ok THEN a.added ELSE 0]
        /\ pre' = Cells

\* (mutant of ParseArrowReplay: the REPLAY_DATA of the first call is created
\* before the file is read)
ParseArrowReplayCreatingFirst(chunk) ==
    LET p == ParseChunk(chunk)
        d == MergeIntoReplayData(REPLAY_DATA, p.acc.new_service_ids, p.acc.job_id, clock)
        empty == Some(ReplayData(<<>>, <<>>, clock, ""))
    IN  /\ last = Idle
        /\ REPLAY_DATA' = IF p.result = Ok THEN d
                          ELSE IF REPLAY_DATA = None THEN empty
                          ELSE REPLAY_DATA
        /\ UNCHANGED <<GPU_RENDERER, ANIMATION_RUNNING, LAST_SERVICE_COUNT, timers, clock>>
        /\ last' = [Call("parse_arrow_replay") EXCEPT
                      !.chunk = chunk, !.now = clock, !.result = p.result,
                      !.returned = IF p.result = Ok THEN d ELSE None]
        /\ pre' = Cells

\* parse_arrow_replay(data); serde_wasm_bindgen::to_value of the returned
\* ReplayData (strings and f32) is taken to succeed
ParseArrowReplay(chunk) ==
    LET p == ParseChunk(chunk)
        d == MergeIntoReplayData(REPLAY_DATA, p.acc.new_service_ids, p.acc.job_id, clock)
    IN  /\ last = Idle
        /\ REPLAY_DATA' = IF p.result = Ok THEN d ELSE REPLAY_DATA
        /\ UNCHANGED <<GPU_RENDERER, ANIMATION_RUNNING, LAST_SERVICE_COUNT, timers, clock>>
        /\ last' = [Call("parse_arrow_replay") EXCEPT
                      !.chunk = chunk, !.now = clock, !.result = p.result,
                      !.returned = IF p.result = Ok THEN d ELSE None]
        /\ pre' = Cells

\* start_service_animation()
StartServiceAnimation(texture) ==
    LET s == StartServiceAnimationOn(GPU_RENDERER, REPLAY_DATA, ANIMATION_RUNNING,
                                     timers, texture)
    IN  /\ last = Idle
        /\ s.armed <= MaxTimers
        /\ GPU_RENDERER' = s.gpu
        /\ ANIMATION_RUNNING' = s.running
        /\ timers' = s.armed
        /\ UNCHANGED <<REPLAY_DATA, LAST_SERVICE_COUNT, clock>>
        /\ last' = [Call("start_service_animation") EXCEPT
                      !.result = s.result, !.draws = s.draws]
        /\ pre' = Cells

\* (mutant of RenderReplay: a changed service count restarts the rotation)
RenderReplayRestarting(texture) ==
    LET services == ServicesOf(REPLAY_DATA)
        s == IF Len(services) # LAST_SERVICE_COUNT
             THEN StartIgnoringRunning(GPU_RENDERER, REPLAY_DATA, ANIMATION_RUNNING,
                                       timers, texture)
             ELSE StartServiceAnimationOn(GPU_RENDERER, REPLAY_DATA, ANIMATION_RUNNING,
                                          timers, texture)
    IN  /\ last = Idle
        /\ pre' = Cells
        /\ UNCHANGED <<REPLAY_DATA, clock>>
        /\ IF services = <<>>
           THEN /\ UNCHANGED <<GPU_RENDERER, ANIMATION_RUNNING, LAST_SERVICE_COUNT, timers>>
                /\ last' = [Call("render_replay") EXCEPT !.result = ErrNoReplayData]
           ELSE /\ s.armed <= MaxTimers
                /\ LAST_SERVICE_COUNT' = Len(services)
                /\ GPU_RENDERER' = s.gpu
                /\ ANIMATION_RUNNING' = s.running
                /\ timers' = s.armed
                /\ last' = [Call("render_replay") EXCEPT
                              !.result = s.result, !.draws = s.draws]

\* render_replay()
RenderReplay(texture) ==
    LET services == ServicesOf(REPLAY_DATA)
        s == StartServiceAnimationOn(GPU_RENDERER, REPLAY_DATA, ANIMATION_RUNNING,
                                     timers, texture)
    IN  /\ last = Idle
        /\ pre' = Cells
        /\ UNCHANGED <<REPLAY_DATA, clock>>
        /\ IF services = <<>>
           THEN /\ UNCHANGED <<GPU_RENDERER, ANIMATION_RUNNING, LAST_SERVICE_COUNT, timers>>
                /\ last' = [Call("render_replay") EXCEPT !.result = ErrNoReplayData]
           ELSE IF ~ANIMATION_RUNNING
           THEN /\ s.armed <= MaxTimers
                /\ LAST_SERVICE_COUNT' = Len(services)
                /\ GPU_RENDERER' = s.gpu
                /\ ANIMATION_RUNNING' = s.running
                /\ timers' = s.armed
                /\ last' = [Call("render_replay") EXCEPT
                              !.result = s.result, !.draws = s.draws]
           ELSE /\ LAST_SERVICE_COUNT' = Len(services)
                /\ UNCHANGED <<GPU_RENDERER, ANIMATION_RUNNING, timers>>
                /\ last' = Call("render_replay")

\* get_service_count()
GetServiceCount ==
    /\ last = Idle
    /\ UNCHANGED <<cells, clock>>
    /\ last' = [Call("get_service_count") EXCEPT !.count = Len(ServicesOf(REPLAY_DATA))]
    /\ pre' = Cells

\* render_service_by_index(service_index)
RenderServiceByIndex(service_index, texture) ==
    LET r == RenderServiceByIndexOn(GPU_RENDERER, REPLAY_DATA, service_index, texture)
    IN  /\ last = Idle
        /\ UNCHANGED <<cells, clock>>
        /\ last' = [Call("render_service_by_index") EXCEPT
                      !.service_index = service_index, !.result = r.result,
                      !.draws = r.draws]
        /\ pre' = Cells

\* a pending setTimeout callback fires
TimerFires(clear_texture, render_texture) ==
    LET t == TimerCallbackOn(GPU_RENDERER, REPLAY_DATA, ANIMATION_RUNNING,
                             clear_texture, render_texture)
    IN  /\ last = Idle
        /\ timers > 0
        /\ GPU_RENDERER' = t.gpu
        /\ ANIMATION_RUNNING' = t.running
        \* the timer that fired is gone
        /\ timers' = (timers - 1) + (IF t.rearmed THEN 1 ELSE 0)
        /\ UNCHANGED <<REPLAY_DATA, LAST_SERVICE_COUNT, clock>>
        /\ last' = [Call("timer") EXCEPT !.draws = t.draws]
        /\ pre' = Cells

\* (mutant of StopAnimation: the pending timers are cancelled and the index reset)
StopAnimationCancelling ==
    /\ last = Idle
    /\ ANIMATION_RUNNING' = FALSE
    /\ timers' = 0
    /\ GPU_RENDERER' = SetIndex(GPU_RENDERER, 0)
    /\ UNCHANGED <<REPLAY_DATA, LAST_SERVICE_COUNT, clock>>
    /\ last' = Call("stop_animation")
    /\ pre' = Cells

\* stop_animation()
StopAnimation ==
    /\ last = Idle
    /\ ANIMATION_RUNNING' = FALSE
    /\ UNCHANGED <<GPU_RENDERER, REPLAY_DATA, LAST_SERVICE_COUNT, timers, clock>>
    /\ last' = Call("stop_animation")
    /\ pre' = Cells

\* clear_canvas()
ClearCanvas(texture) ==
    LET r == ClearCanvasOn(GPU_RENDERER, texture)
    IN  /\ last = Idle
        /\ UNCHANGED <<cells, clock>>
        /\ last' = [Call("clear_canvas") EXCEPT !.result = r.result, !.draws = r.draws]
        /\ pre' = Cells

----
(* Specifications *)

\* the whole program; chunks of one batch
Next ==
    \/ Return
    \/ \E ok \in BOOLEAN : InitWebgpu(ok)
    \/ \E chunk \in SmallChunks : AppendChunk(chunk)
    \/ \E chunk \in SmallChunks : ParseArrowReplay(chunk)
    \/ \E texture \in BOOLEAN : StartServiceAnimation(texture)
    \/ \E texture \in BOOLEAN : RenderReplay(texture)
    \/ GetServiceCount
    \/ \E service_index \in 0..MaxIndex, texture \in BOOLEAN :
          RenderServiceByIndex(service_index, texture)
    \/ \E clear_texture, render_texture \in BOOLEAN :
          TimerFires(clear_texture, render_texture)
    \/ StopAnimation
    \/ \E texture \in BOOLEAN : ClearCanvas(texture)

Spec == Init /\ [][Next]_vars

\* the ingestion handlers alone, on every chunk
NextIngest ==
    \/ Return
    \/ \E chunk \in Chunks : AppendChunk(chunk)
    \/ \E chunk \in Chunks : ParseArrowReplay(chunk)
    \/ GetServiceCount

SpecIngest == Init /\ [][NextIngest]_vars

\* ingestion and the scheduler while time passes
NextTime ==
    \/ Return
    \/ Tick
    \/ InitWebgpu(TRUE)
    \/ \E chunk \in TimedChunks : AppendChunk(chunk)
    \/ \E chunk \in TimedChunks : ParseArrowReplay(chunk)
    \/ StartServiceAnimation(TRUE)
    \/ TimerFires(TRUE, TRUE)
    \/ StopAnimation
    \/ GetServiceCount
    \/ \E service_index \in 0..MaxIndex : RenderServiceByIndex(service_index, TRUE)

SpecTime == Init /\ [][NextTime]_vars

\* the program driven through scenarios A and B: the renderer is initialised
\* and draws, the ids a, b are appended, the animation is started, the ids b, c
\* are appended before the first timer fires, then the timers fire; the handlers
\* that write no cell are called at any point
ChunkAB == Chunk(TRUE, <<IdBatch(<<"a", "b">>)>>)
ChunkBC == Chunk(TRUE, <<IdBatch(<<"b", "c">>)>>)

NextScenarioB ==
    \/ Return
    \/ GPU_RENDERER = None /\ ~ANIMATION_RUNNING /\ InitWebgpu(TRUE)
    \/ REPLAY_DATA = None /\ AppendChunk(ChunkAB)
    \/ /\ AllServiceIdsOf(REPLAY_DATA) = <<"a", "b">>
       /\ GPU_RENDERER # None
       /\ StartServiceAnimation(TRUE)
    \/ /\ AllServiceIdsOf(REPLAY_DATA) = <<"a", "b">>
       /\ ANIMATION_RUNNING
       /\ AppendChunk(ChunkBC)
    \/ AllServiceIdsOf(REPLAY_DATA) = <<"a", "b", "c">> /\ TimerFires(TRUE, TRUE)
    \/ GetServiceCount
    \/ \E service_index \in 0..MaxIndex, texture \in BOOLEAN :
          RenderServiceByIndex(service_index, texture)
    \/ \E texture \in BOOLEAN : ClearCanvas(texture)

SpecScenarioB == Init /\ [][NextScenarioB]_vars

\* the rotation under the event loop's scheduling, with a renderer that draws:
\* a handler that was entered returns, and a setTimeout callback that is pending
\* is run, however many other calls arrive
RowChunks == {Chunk(TRUE, <<IdBatch(<<id>>)>>) : id \in Ids}

NextFair ==
    \/ Return
    \/ InitWebgpu(TRUE)
    \/ \E chunk \in RowChunks : AppendChunk(chunk)
    \/ StartServiceAnimation(TRUE)
    \/ TimerFires(TRUE, TRUE)
    \/ StopAnimation

SpecFair ==
    /\ Init
    /\ [][NextFair]_vars
    /\ WF_vars(Return)
    /\ SF_vars(TimerFires(TRUE, TRUE))

----
(* Properties of ingestion (SpecIngest) *)

IngestOps == {"append_chunk", "parse_arrow_replay"}

\* allServiceIds and services before and after the handler that has just run
PreIds == AllServiceIdsOf(pre.REPLAY_DATA)
CurIds == AllServiceIdsOf(REPLAY_DATA)
PreServices == ServicesOf(pre.REPLAY_DATA)
CurServices == ServicesOf(REPLAY_DATA)

\* every id value of the id columns of the batches k.., in read order
RECURSIVE ChunkValues(_, _)
ChunkValues(batches, k) ==
    IF k > Len(batches) THEN <<>>
    ELSE (IF batches[k].kind = "ids" THEN batches[k].ids ELSE <<>>)
           \o ChunkValues(batches, k + 1)

\* the id values of the chunk the handler was given
LastValues == ChunkValues(last.chunk.batches, 1)

\* the place of the first x in s
FirstIndex(s, x) == CHOOSE i \in 1..Len(s) : s[i] = x /\ \A j \in 1..(i - 1) : s[j] # x

\* C1: allServiceIds before a call is a prefix of allServiceIds after it, for
\* every call, successful or failing: no id is removed or reordered, new ids are
\* appended at the end.
C1_Monotonic == IsPrefix(PreIds, CurIds)

\* an ingestion that re-reads a recorded id and appends a new one to recorded ids
C1_Witness ==
    /\ last.op \in IngestOps
    /\ PreIds # <<>>
    /\ Len(CurIds) > Len(PreIds)
    /\ Range(LastValues) \cap Range(PreIds) # {}

\* C2: allServiceIds never holds an id twice; what a successful ingestion appends
\* is exactly the chunk's values that were not recorded, each once, in the order
\* of their first occurrence in the chunk.
C2_NoDuplicates ==
    /\ NoDup(CurIds)
    /\ (last.op \in IngestOps /\ last.result = Ok) =>
          LET appended == SubSeq(CurIds, Len(PreIds) + 1, Len(CurIds))
          IN  /\ IsPrefix(PreIds, CurIds)
              /\ Range(appended) = Range(LastValues) \ Range(PreIds)
              /\ \A i, j \in 1..Len(appended) :
                    i < j => FirstIndex(LastValues, appended[i])
                               < FirstIndex(LastValues, appended[j])

\* a two-batch chunk with the same new id in both batches, merged into recorded
\* ids: the id is appended once
C2_Witness ==
    /\ last.op \in IngestOps
    /\ last.result = Ok
    /\ Len(last.chunk.batches) = 2
    /\ \E x \in Ids \ Range(PreIds) :
          /\ x \in Range(last.chunk.batches[1].ids)
          /\ x \in Range(last.chunk.batches[2].ids)
    /\ PreIds # <<>>
    /\ Len(CurIds) = Len(PreIds) + 1

\* C3: whenever REPLAY_DATA exists, services has one entry per id of
\* allServiceIds, with that id, in the same order.
C3_ServicesMatchIds ==
    REPLAY_DATA # None =>
        /\ Len(CurServices) = Len(CurIds)
        /\ \A i \in 1..Len(CurIds) : CurServices[i].id = CurIds[i]

\* a merge into existing, non-empty state that added an id
C3_Witness ==
    /\ last.op \in IngestOps
    /\ pre.REPLAY_DATA # None
    /\ PreIds # <<>>
    /\ Len(CurIds) > Len(PreIds)

\* C4: an append_chunk whose id values are all recorded already logs
\* added_count = 0 and leaves allServiceIds and services (ids, x, y, status) as
\* they were.
C4_Idempotent ==
    (/\ last.op = "append_chunk"
     /\ last.result = Ok
     /\ Range(LastValues) \subseteq Range(PreIds)) =>
        /\ last.added = 0
        /\ CurIds = PreIds
        /\ CurServices = PreServices

\* an append_chunk of values that are all recorded, into two or more ids
C4_Witness ==
    /\ last.op = "append_chunk"
    /\ last.result = Ok
    /\ LastValues # <<>>
    /\ Range(LastValues) \subseteq Range(PreIds)
    /\ Len(PreIds) >= 2
    /\ last.added = 0

\* job_id before and after the handler that has just run ("" while there is
\* no REPLAY_DATA)
JobIdOf(cell) == IF cell = None THEN "" ELSE cell[1].job_id
PreJobId == JobIdOf(pre.REPLAY_DATA)
CurJobId == JobIdOf(REPLAY_DATA)

\* C22: after every parse_arrow_replay that returns Ok on a file with one id
\* value or more, job_id is the last value of the file in read order, new or
\* not, on the first call and on a merge; the ReplayData returned is the one
\* stored.
C22_JobIdLastValue ==
    (last.op = "parse_arrow_replay" /\ last.result = Ok) =>
        /\ last.returned = REPLAY_DATA
        /\ REPLAY_DATA # None
        /\ LastValues # <<>> => CurJobId = LastValues[Len(LastValues)]

\* a merge of a file that adds an id and ends on a recorded id that is seen
\* earlier in the file too: job_id becomes that last value
C22_Witness ==
    /\ last.op = "parse_arrow_replay"
    /\ last.result = Ok
    /\ PreIds # <<>>
    /\ Len(CurIds) > Len(PreIds)
    /\ Len(LastValues) = 3
    /\ LastValues[3] = LastValues[1]
    /\ LastValues[3] \in Range(PreIds)
    /\ PreJobId # LastValues[3]
    /\ CurJobId = LastValues[3]

\* C23 as claimed: no append_chunk, merging or creating REPLAY_DATA, gives
\* job_id a value derived from its chunk: a merge leaves job_id as it was and
\* the first call leaves it empty.
C23_AppendNeverSetsJobId ==
    (last.op = "append_chunk" /\ last.result = Ok) => CurJobId = PreJobId

\* C23: an append_chunk that merges into REPLAY_DATA leaves job_id as it was;
\* the append_chunk that creates REPLAY_DATA sets job_id to the first id value
\* of its chunk, and to the empty string when the chunk has none; a failing
\* append_chunk writes nothing.
C23_AppendJobId ==
    last.op = "append_chunk" =>
        /\ (last.result = Ok /\ pre.REPLAY_DATA # None) => CurJobId = PreJobId
        /\ (last.result = Ok /\ pre.REPLAY_DATA = None) =>
              CurJobId = (IF LastValues = <<>> THEN "" ELSE LastValues[1])
        /\ last.result # Ok => REPLAY_DATA = pre.REPLAY_DATA

\* a merging append_chunk that adds ids, none of its values being the job_id
\* recorded by an earlier parse_arrow_replay
C23_Witness ==
    /\ last.op = "append_chunk"
    /\ last.result = Ok
    /\ pre.REPLAY_DATA # None
    /\ Len(CurIds) > Len(PreIds)
    /\ PreJobId # ""
    /\ PreJobId \notin Range(LastValues)
    /\ PreJobId # PreIds[1]
    /\ CurJobId = PreJobId

\* the cells that differ from `cell` in job_id and timestamp at most
Variants(cell) ==
    IF cell = None THEN {None}
    ELSE {Some([cell[1] EXCEPT !.job_id = j, !.timestamp = t]) :
            j \in Ids \cup {""}, t \in 0..MaxTime}

\* two cells with the same allServiceIds and the same services (both None, or
\* both there)
SameMerge(c1, c2) ==
    /\ (c1 = None) = (c2 = None)
    /\ AllServiceIdsOf(c1) = AllServiceIdsOf(c2)
    /\ ServicesOf(c1) = ServicesOf(c2)

\* C24: the ingestion that has just run, made by append_chunk or by
\* parse_arrow_replay on the same bytes and on any REPLAY_DATA with the same
\* allServiceIds and services (whatever job_id and timestamp the earlier calls
\* left), returns the same outcome and gives the same allServiceIds and the same
\* services; so a sequence of chunks gives them whichever handler takes each.
C24_SameMerge ==
    last.op \in IngestOps =>
        \A alt \in Variants(pre.REPLAY_DATA) :
            LET a == AppendChunkOn(alt, last.chunk, last.now)
                d == ParseArrowReplayOn(alt, last.chunk, last.now)
            IN  /\ a.result = last.result
                /\ d.result = last.result
                /\ SameMerge(a.cell, REPLAY_DATA)
                /\ SameMerge(d.cell, REPLAY_DATA)

\* a parse_arrow_replay that adds an id to ids an append_chunk recorded, and
\* leaves a job_id append_chunk would not have left
C24_Witness ==
    /\ last.op = "parse_arrow_replay"
    /\ last.result = Ok
    /\ Len(PreIds) = 2
    /\ PreJobId = PreIds[1]
    /\ Len(CurIds) = 3
    /\ CurJobId # PreJobId
    /\ Range(LastValues) \cap Range(PreIds) # {}

\* C11 as claimed: ingesting the ids a, b into a system without REPLAY_DATA
\* gives allServiceIds = [a, b] and two services at x = -0.15 and x = +0.15,
\* centred around 0.
C11_ScenarioA ==
    (/\ last.op \in IngestOps
     /\ last.result = Ok
     /\ pre.REPLAY_DATA = None
     /\ LastValues = <<"a", "b">>) =>
        /\ CurIds = <<"a", "b">>
        /\ Len(CurServices) = 2
        /\ CurServices[1].x = -15
        /\ CurServices[2].x = 15
        /\ CurServices[1].x + CurServices[2].x = 0

\* C12: in every state, entry i (0-based) of the n services has
\* x = i * 0.3 - 0.15 * n, y = 0 and status healthy, whichever handler and path
\* generated it, and also after the ingestions that did not regenerate.
C12_Positions ==
    \A k \in 1..Len(CurServices) :
        /\ CurServices[k].x = ((k - 1) * 30) - (15 * Len(CurServices))
        /\ CurServices[k].y = 0
        /\ CurServices[k].status = "healthy"

\* a merge that adds a third id to two: the two nodes there are moved
C12_Witness ==
    /\ last.op = "parse_arrow_replay"
    /\ Len(PreServices) = 2
    /\ Len(CurServices) = 3
    /\ PreServices[1].x = -30
    /\ CurServices[1].x = -45
    /\ CurServices[3].x = 15

----
(* Properties of the scheduler (Spec) *)

CurIndex == CurrentIndexOf(GPU_RENDERER)
PreIndex == CurrentIndexOf(pre.GPU_RENDERER)

\* C5: whenever services is non-empty, current_service_index < len(services),
\* in every state, so after every timer transition and every ingestion.
C5_IndexSafe == CurServices # <<>> => CurIndex < Len(CurServices)

\* a transition that wraps the index from the third service to the first one,
\* the third having been ingested after render_replay() counted two
C5_Witness ==
    /\ last.op = "timer"
    /\ pre.ANIMATION_RUNNING
    /\ Len(CurServices) = 3
    /\ PreIndex = 2
    /\ CurIndex = 0
    /\ LAST_SERVICE_COUNT = 2

\* C6: start_service_animation() while ANIMATION_RUNNING returns Ok, draws
\* nothing and leaves every cell (flag, index, pending timers, REPLAY_DATA) as
\* it was.
C6_StartWhileRunning ==
    (last.op = "start_service_animation" /\ pre.ANIMATION_RUNNING) =>
        /\ last.result = Ok
        /\ last.draws = <<>>
        /\ Cells = pre

\* a second start with a timer pending, several services and the index advanced
C6_Witness ==
    /\ last.op = "start_service_animation"
    /\ pre.ANIMATION_RUNNING
    /\ pre.timers = 1
    /\ Len(PreServices) >= 2
    /\ PreIndex = 1

\* C7: start_service_animation() while stopped with no services (no REPLAY_DATA,
\* or one whose services is empty) returns the no-data error, draws nothing and
\* leaves every cell as it was: the flag stays false, no timer is armed.
C7_StartWithoutData ==
    (/\ last.op = "start_service_animation"
     /\ ~pre.ANIMATION_RUNNING
     /\ PreServices = <<>>) =>
        /\ last.result = ErrNoReplayData
        /\ last.draws = <<>>
        /\ Cells = pre
        /\ ~ANIMATION_RUNNING

\* a start on a REPLAY_DATA that exists and is empty, the renderer being there
C7_Witness ==
    /\ last.op = "start_service_animation"
    /\ ~pre.ANIMATION_RUNNING
    /\ pre.REPLAY_DATA # None
    /\ PreServices = <<>>
    /\ GPU_RENDERER # None
    /\ last.result = ErrNoReplayData

\* C8: a timer callback that fires while ANIMATION_RUNNING is false draws
\* nothing, leaves the index and REPLAY_DATA as they were, arms no timer (the
\* one that fired is gone) and leaves the flag false.
C8_StaleTimer ==
    (last.op = "timer" /\ ~pre.ANIMATION_RUNNING) =>
        /\ last.draws = <<>>
        /\ GPU_RENDERER = pre.GPU_RENDERER
        /\ REPLAY_DATA = pre.REPLAY_DATA
        /\ LAST_SERVICE_COUNT = pre.LAST_SERVICE_COUNT
        /\ timers = pre.timers - 1
        /\ ~ANIMATION_RUNNING

\* the timer of a stopped run fires, with services to rotate and a renderer
C8_Witness ==
    /\ last.op = "timer"
    /\ ~pre.ANIMATION_RUNNING
    /\ Len(PreServices) >= 2
    /\ GPU_RENDERER # None
    /\ pre.timers = 1
    /\ timers = 0

\* the node render_service_by_index(service_index) is to draw
NodeByIndex == PreServices[(last.service_index % Len(PreServices)) + 1]

\* C9 as claimed: with one service or more, render_service_by_index(i) draws
\* exactly services[i mod n] and leaves every cell as it was.
C9_AlwaysRenders ==
    (last.op = "render_service_by_index" /\ PreServices # <<>>) =>
        /\ last.draws = <<DrawNode(NodeByIndex)>>
        /\ Cells = pre

\* C9: with one service or more, render_service_by_index(i) leaves every cell
\* (flag, index, pending timers, REPLAY_DATA) as it was, running or stopped;
\* with the renderer initialised and its surface texture acquired it returns Ok
\* and draws exactly services[i mod n], otherwise it returns the renderer's
\* error and draws nothing.
C9_RenderByIndex ==
    (last.op = "render_service_by_index" /\ PreServices # <<>>) =>
        /\ Cells = pre
        /\ \/ last.result = Ok /\ last.draws = <<DrawNode(NodeByIndex)>>
           \/ last.result \in {ErrNotInitialized, ErrSurfaceTexture} /\ last.draws = <<>>
        /\ GPU_RENDERER = None => last.result = ErrNotInitialized
        /\ GPU_RENDERER # None => last.result # ErrNotInitialized

\* render_service_by_index(5) on two services while running: the second is drawn
C9_Witness ==
    /\ last.op = "render_service_by_index"
    /\ last.service_index = 5
    /\ Len(PreServices) = 2
    /\ ANIMATION_RUNNING
    /\ CurIndex = 0
    /\ last.result = Ok
    /\ last.draws = <<DrawNode(PreServices[2])>>

\* C10: with no services, render_service_by_index(i) returns the no-services
\* error for every i, draws nothing and leaves every cell as it was.
C10_RenderByIndexWithoutData ==
    (last.op = "render_service_by_index" /\ PreServices = <<>>) =>
        /\ last.result = ErrNoServices
        /\ last.draws = <<>>
        /\ Cells = pre

\* render_service_by_index(3) on an empty REPLAY_DATA, the renderer being there
C10_Witness ==
    /\ last.op = "render_service_by_index"
    /\ last.service_index = 3
    /\ pre.REPLAY_DATA # None
    /\ PreServices = <<>>
    /\ GPU_RENDERER # None
    /\ last.result = ErrNoServices

\* a start_service_animation() that got past its two early returns
StartedFromStopped ==
    /\ last.op = "start_service_animation"
    /\ ~pre.ANIMATION_RUNNING
    /\ PreServices # <<>>

\* C13 as claimed: a start_service_animation() that returns Ok from stopped with
\* services leaves the flag true and the index 0, whatever the index was, and
\* draws one node, services[0].
C13_StartResets ==
    (StartedFromStopped /\ last.result = Ok) =>
        /\ ANIMATION_RUNNING
        /\ CurIndex = 0
        /\ last.draws = <<DrawNode(PreServices[1])>>

\* C14: a start_service_animation() that returns Ok from stopped adds exactly
\* one pending timer when there are several services, and none when there is
\* one service (the flag is true with no timer of this run).
C14_TimersArmed ==
    (StartedFromStopped /\ last.result = Ok) =>
        /\ Len(PreServices) > 1 => timers = pre.timers + 1
        /\ Len(PreServices) = 1 => (timers = pre.timers /\ ANIMATION_RUNNING)

\* a start on a single service: it is drawn, the flag is true, no timer pends
C14_Witness ==
    /\ StartedFromStopped
    /\ last.result = Ok
    /\ Len(PreServices) = 1
    /\ last.draws = <<DrawNode(PreServices[1])>>
    /\ ANIMATION_RUNNING
    /\ timers = 0

\* the nodes the handler drew, in order
IsNodeDraw(d) == d.what = "node"
NodesDrawn == SelectSeq(last.draws, IsNodeDraw)

\* a timer callback that got past its two early returns
TimerTransition ==
    /\ last.op = "timer"
    /\ pre.ANIMATION_RUNNING
    /\ PreServices # <<>>

\* C16 as claimed: a timer callback that fires while the flag is true and
\* services is non-empty sets the index to (index + 1) mod len(services), draws
\* the node now at the index, leaves one timer pending for the one that fired,
\* and leaves the flag true and REPLAY_DATA as it was.
C16_TimerAdvances ==
    TimerTransition =>
        /\ CurIndex = (PreIndex + 1) % Len(PreServices)
        /\ NodesDrawn = <<DrawNode(CurServices[CurIndex + 1])>>
        /\ timers = pre.timers
        /\ ANIMATION_RUNNING
        /\ REPLAY_DATA = pre.REPLAY_DATA

\* C16: a timer callback that fires while the flag is true and services is
\* non-empty arms exactly one timer for the one that fired and leaves the flag
\* true and REPLAY_DATA as it was.  With the renderer initialised it sets the
\* index to (index + 1) mod len(services) and draws no node but the one now at
\* the index (none when the surface texture is not acquired); with no renderer
\* there is no index to advance and nothing is drawn.
C16_Transition ==
    TimerTransition =>
        /\ timers = pre.timers
        /\ ANIMATION_RUNNING
        /\ REPLAY_DATA = pre.REPLAY_DATA
        /\ LAST_SERVICE_COUNT = pre.LAST_SERVICE_COUNT
        /\ pre.GPU_RENDERER # None =>
              /\ GPU_RENDERER # None
              /\ CurIndex = (PreIndex + 1) % Len(PreServices)
              /\ NodesDrawn \in {<<>>, <<DrawNode(CurServices[CurIndex + 1])>>}
        /\ pre.GPU_RENDERER = None =>
              /\ GPU_RENDERER = None
              /\ last.draws = <<>>

\* a transition on two services that wraps from the second to the first, clears
\* and draws it, one timer pending before and after
C16_Witness ==
    /\ TimerTransition
    /\ Len(PreServices) = 2
    /\ PreIndex = 1
    /\ CurIndex = 0
    /\ last.draws = <<DrawClear, DrawNode(CurServices[1])>>
    /\ pre.timers = 1
    /\ timers = 1

\* C17: stop_animation() returns Ok and leaves the flag false; it leaves the
\* index, REPLAY_DATA and the pending timers as they were (no timer is
\* cancelled); called while the flag is false already it changes no cell, so a
\* second stop leaves the state of the first.
C17_Stop ==
    last.op = "stop_animation" =>
        /\ last.result = Ok
        /\ ~ANIMATION_RUNNING
        /\ GPU_RENDERER = pre.GPU_RENDERER
        /\ REPLAY_DATA = pre.REPLAY_DATA
        /\ LAST_SERVICE_COUNT = pre.LAST_SERVICE_COUNT
        /\ timers = pre.timers
        /\ ~pre.ANIMATION_RUNNING => Cells = pre

\* a stop of a running rotation at index 1 with its timer pending: the timer
\* stays, the index stays
C17_Witness ==
    /\ last.op = "stop_animation"
    /\ pre.ANIMATION_RUNNING
    /\ ~ANIMATION_RUNNING
    /\ PreIndex = 1
    /\ CurIndex = 1
    /\ timers = 1

\* C19 as claimed: a start_service_animation() that returns an error, the
\* no-data error or a failure of the renderer, leaves the flag and the index as
\* they were and arms no timer.
C19_StartAllOrNothing ==
    (last.op = "start_service_animation" /\ last.result # Ok) =>
        /\ ANIMATION_RUNNING = pre.ANIMATION_RUNNING
        /\ CurIndex = PreIndex
        /\ timers = pre.timers

\* a call that attempts a render with GPU_RENDERER None: render_service_by_index
\* on services, or a start_service_animation() past its two early returns
RenderAttemptedUninitialised ==
    /\ pre.GPU_RENDERER = None
    /\ PreServices # <<>>
    /\ \/ last.op = "render_service_by_index"
       \/ StartedFromStopped

\* C20 as claimed: every start_service_animation() or render_service_by_index()
\* that attempts a render while the renderer is not initialised, on one service
\* or several, returns the renderer-not-initialised error.
C20_RendererUnavailable ==
    RenderAttemptedUninitialised => last.result = ErrNotInitialized

\* the chunk the handler was given is well formed and has no id value: no
\* batch, or batches with no row or no id column
WellFormedWithoutIds ==
    /\ last.chunk.open
    /\ \A k \in 1..Len(last.chunk.batches) : last.chunk.batches[k].kind # "err"
    /\ LastValues = <<>>

\* C25: an ingestion of a well-formed chunk without id values returns Ok, logs
\* added_count = 0 and leaves allServiceIds and services as they were; as the
\* first ingestion it creates a REPLAY_DATA with both empty, on which
\* start_service_animation() returns the no-data error.
C25_EmptyChunk ==
    /\ (last.op \in IngestOps /\ WellFormedWithoutIds) =>
          /\ last.result = Ok
          /\ last.added = 0
          /\ CurIds = PreIds
          /\ CurServices = PreServices
          /\ REPLAY_DATA # None
    /\ (/\ last.op = "start_service_animation"
        /\ pre.REPLAY_DATA # None
        /\ PreIds = <<>>) =>
          /\ last.result = ErrNoReplayData
          /\ Cells = pre

\* a first append_chunk whose one batch has no id column: REPLAY_DATA is created
\* empty
C25_Witness ==
    /\ last.op = "append_chunk"
    /\ last.chunk = Chunk(TRUE, <<NoIdBatch>>)
    /\ last.result = Ok
    /\ pre.REPLAY_DATA = None
    /\ REPLAY_DATA # None
    /\ CurIds = <<>>
    /\ CurServices = <<>>

\* C26: while REPLAY_DATA is None, only an append_chunk or parse_arrow_replay
\* that returns Ok creates it: every other handler, the timer callback and the
\* failing ingestions leave it None, and get_service_count() returns 0; once
\* created it is never None again.
C26_Lifecycle ==
    /\ (pre.REPLAY_DATA = None /\ ~(last.op \in IngestOps /\ last.result = Ok)) =>
          REPLAY_DATA = None
    /\ (last.op \in IngestOps /\ last.result = Ok) => REPLAY_DATA # None
    /\ (last.op = "get_service_count" /\ REPLAY_DATA = None) => last.count = 0
    /\ pre.REPLAY_DATA # None => REPLAY_DATA # None

\* a failing ingestion, made with the renderer there and no REPLAY_DATA yet
C26_Witness ==
    /\ last.op \in IngestOps
    /\ last.result = ErrReadBatch
    /\ GPU_RENDERER # None
    /\ pre.REPLAY_DATA = None
    /\ REPLAY_DATA = None

\* C28: every append_chunk or parse_arrow_replay, returning Ok or an error,
\* leaves the flag, the index and the pending timers as they were, and when
\* there were services before the call the service at the index has the id it
\* had.
C28_IngestionKeepsRotation ==
    last.op \in IngestOps =>
        /\ ANIMATION_RUNNING = pre.ANIMATION_RUNNING
        /\ GPU_RENDERER = pre.GPU_RENDERER
        /\ timers = pre.timers
        /\ LAST_SERVICE_COUNT = pre.LAST_SERVICE_COUNT
        /\ PreServices # <<>> =>
              /\ CurIndex < Len(CurServices)
              /\ CurServices[CurIndex + 1].id = PreServices[PreIndex + 1].id

\* an ingestion that adds a third id while the rotation shows the second of two
C28_Witness ==
    /\ last.op \in IngestOps
    /\ last.result = Ok
    /\ pre.ANIMATION_RUNNING
    /\ pre.timers = 1
    /\ PreIndex = 1
    /\ Len(PreServices) = 2
    /\ Len(CurServices) = 3
    /\ CurServices[2].x # PreServices[2].x

\* the ids of the nodes the handler drew, in order
DrawnIds == [k \in 1..Len(NodesDrawn) |-> NodesDrawn[k].node[1].id]

\* C29 as claimed: in a run on n > 1 services the ids drawn by
\* start_service_animation() and by the timer transitions that follow are
\* allServiceIds[0], allServiceIds[1], ..., allServiceIds[n-1], allServiceIds[0],
\* ...: the start draws the first id and every transition draws the id that
\* follows, cyclically, the one drawn before it.
C29_FirstSeenOrder ==
    /\ (StartedFromStopped /\ Len(PreServices) > 1) =>
          /\ CurIndex = 0
          /\ DrawnIds = <<CurIds[1]>>
    /\ (TimerTransition /\ Len(PreServices) > 1) =>
          /\ CurIndex = (PreIndex + 1) % Len(CurIds)
          /\ DrawnIds = <<CurIds[CurIndex + 1]>>

\* C29: in a run on n > 1 services the rotation goes through allServiceIds in
\* first-seen order: start_service_animation() leaves the index 0, every timer
\* transition of an initialised renderer moves it to the next place cyclically,
\* and what either draws is the id at the index and no other; a render that
\* fails is skipped, and with no renderer nothing is drawn.
C29_RotationOrder ==
    /\ (StartedFromStopped /\ Len(PreServices) > 1) =>
          /\ last.result = Ok
          /\ CurIndex = 0
          /\ DrawnIds \in {<<>>, <<CurIds[1]>>}
          /\ pre.GPU_RENDERER = None => DrawnIds = <<>>
    /\ (TimerTransition /\ Len(PreServices) > 1) =>
          /\ pre.GPU_RENDERER # None => CurIndex = (PreIndex + 1) % Len(CurIds)
          /\ DrawnIds \in {<<>>, <<CurIds[CurIndex + 1]>>}
          /\ pre.GPU_RENDERER = None => DrawnIds = <<>>

\* the transition from the second to the third of three ids draws the third
C29_Witness ==
    /\ TimerTransition
    /\ Len(CurIds) = 3
    /\ PreIndex = 1
    /\ CurIndex = 2
    /\ DrawnIds = <<CurIds[3]>>

\* a timer callback that found the flag false: the rotation was stopped and not
\* started again
DeadFiring == last.op = "timer" /\ ~pre.ANIMATION_RUNNING

\* C30 as claimed: after stop_animation(), with no start since, a timer
\* callback draws nothing and leaves the index as it was, and one dead firing
\* is all there is: after it no timer is pending.
C30_OneDeadFiring ==
    DeadFiring =>
        /\ last.draws = <<>>
        /\ GPU_RENDERER = pre.GPU_RENDERER
        /\ ~ANIMATION_RUNNING
        /\ timers = 0

----
(* Failing ingestion while time passes (SpecTime) *)

\* C18: an append_chunk or parse_arrow_replay that returns an error, at opening
\* the reader or at a batch read after others, leaves REPLAY_DATA as it was
\* (allServiceIds, services, timestamp, jobId; None if it was None) and every
\* other cell too; nothing is returned or counted.
C18_FailedIngestion ==
    (last.op \in IngestOps /\ last.result # Ok) =>
        /\ last.result \in {ErrCreateReader, ErrReadBatch}
        /\ REPLAY_DATA = pre.REPLAY_DATA
        /\ Cells = pre
        /\ last.returned = None
        /\ last.added = 0

\* the reader fails at its second batch, the first having given a new id, on a
\* REPLAY_DATA written at an earlier time
C18_Witness ==
    /\ last.op \in IngestOps
    /\ last.result = ErrReadBatch
    /\ Len(last.chunk.batches) = 2
    /\ Range(LastValues) \cap Range(PreIds) = {}
    /\ LastValues # <<>>
    /\ PreIds # <<>>
    /\ pre.REPLAY_DATA[1].timestamp < last.now

\* C21: every append_chunk or parse_arrow_replay that returns Ok leaves
\* timestamp at the time of the call, whether it added ids or not and whether
\* it created REPLAY_DATA or merged into it; every other handler and the timer
\* callback leave REPLAY_DATA, so its timestamp, as it was.
C21_Timestamp ==
    /\ (last.op \in IngestOps /\ last.result = Ok) =>
          /\ REPLAY_DATA # None
          /\ REPLAY_DATA[1].timestamp = last.now
    /\ last.op \notin IngestOps => REPLAY_DATA = pre.REPLAY_DATA

\* an append_chunk of recorded ids only, later than the timestamp recorded: no id
\* is added and the timestamp moves to the time of the call
C21_Witness ==
    /\ last.op = "append_chunk"
    /\ last.result = Ok
    /\ pre.REPLAY_DATA # None
    /\ LastValues # <<>>
    /\ CurIds = PreIds
    /\ pre.REPLAY_DATA[1].timestamp = 0
    /\ last.now = 1
    /\ REPLAY_DATA[1].timestamp = 1

----
(* The rotation under fair scheduling (SpecFair) *)

\* the rotation has just drawn the node of `id`: in start_service_animation()
\* or in a timer callback
Rendered(id) ==
    /\ last.op \in {"start_service_animation", "timer"}
    /\ \E k \in 1..Len(NodesDrawn) : NodesDrawn[k].node[1].id = id

\* C27 as claimed, for a renderer that is initialised and draws: while the flag
\* is true, every id of allServiceIds, those merged after the start too, is
\* eventually drawn by the rotation unless the rotation is stopped, whatever
\* the number of services was at the start.
C27_NewArrivalsRendered ==
    \A id \in Ids :
        [](( /\ ANIMATION_RUNNING
             /\ GPU_RENDERER # None
             /\ id \in Range(CurIds))
             => <>(Rendered(id) \/ ~ANIMATION_RUNNING))

----
(* Scenario B (SpecScenarioB) *)

\* the id of the one node a timer callback drew after clearing, "" otherwise
DrawnId ==
    IF Len(last.draws) = 2 /\ last.draws[1] = DrawClear /\ last.draws[2].what = "node"
    THEN last.draws[2].node[1].id
    ELSE ""

\* C15: after a start on the ids a, b, appending b, c before the first timer
\* fires logs added_count = 1 and gives allServiceIds = [a, b, c] with the index
\* still 0 and the one timer pending; every transition then wraps at the three
\* services there are when it fires: from index 0 to 1 drawing b, from 1 to 2
\* drawing c, from 2 to 0 drawing a, one timer pending after each.
C15_ScenarioB ==
    /\ (last.op = "append_chunk" /\ PreIds = <<"a", "b">>) =>
          /\ pre.ANIMATION_RUNNING /\ pre.timers = 1 /\ PreIndex = 0
          /\ last.added = 1
          /\ CurIds = <<"a", "b", "c">>
          /\ Len(CurServices) = 3
          /\ CurIndex = 0 /\ timers = 1 /\ ANIMATION_RUNNING
    /\ last.op = "timer" =>
          /\ CurIds = <<"a", "b", "c">>
          /\ PreIndex = 0 => (CurIndex = 1 /\ DrawnId = "b")
          /\ PreIndex = 1 => (CurIndex = 2 /\ DrawnId = "c")
          /\ PreIndex = 2 => (CurIndex = 0 /\ DrawnId = "a")
          /\ PreIndex \in 0..2
          /\ timers = 1 /\ ANIMATION_RUNNING

\* the third transition: the index wraps from c back to a
C15_Witness ==
    /\ last.op = "timer"
    /\ CurIds = <<"a", "b", "c">>
    /\ PreIndex = 2
    /\ CurIndex = 0
    /\ last.draws = <<DrawClear, DrawNode(ServiceNode("a", 0, 3))>>

----
(* The timer chain *)

\* C31 as claimed: whatever the interleaving of start, stop, render_replay,
\* ingestion and timer firings, at most one transition timer is pending.
C31_SingleTimer == timers <= 1

\* C32: while ANIMATION_RUNNING is true services is not empty, so a timer
\* callback that finds the flag true finds services too: it never takes the
\* branch that sets the flag false, and the flag is still true after it.
C32_RunningHasServices ==
    /\ ANIMATION_RUNNING => CurServices # <<>>
    /\ (last.op = "timer" /\ pre.ANIMATION_RUNNING) =>
          /\ PreServices # <<>>
          /\ ANIMATION_RUNNING

\* a timer callback that found the flag true and two services or more, and armed
\* its successor
C32_Witness ==
    /\ last.op = "timer"
    /\ pre.ANIMATION_RUNNING
    /\ ANIMATION_RUNNING
    /\ Len(PreServices) >= 2
    /\ timers >= 1

\* C33: no handler and no timer callback makes services shorter: its length
\* after the step is at least its length before, so the services a timer
\* callback reads are never fewer than those there when the timer was armed.
C33_ServicesNeverShrink == Len(PreServices) <= Len(CurServices)

\* an ingestion that makes services longer while a timer of the running
\* rotation is pending
C33_Witness ==
    /\ last.op \in IngestOps
    /\ pre.ANIMATION_RUNNING
    /\ pre.timers >= 1
    /\ Len(PreServices) >= 2
    /\ Len(CurServices) > Len(PreServices)

----
(* render_replay() *)

\* C34: render_replay() never writes REPLAY_DATA. With no services it returns
\* the no-data error and changes nothing. With services and the flag false it
\* does what start_service_animation() does from the same cells (same index,
\* flag, timers, result and drawing), having recorded the service count. With
\* services and the flag true it returns Ok, draws nothing and leaves the flag,
\* the index and the pending timers as they were; it only records the count.
C34_RenderReplay ==
    last.op = "render_replay" =>
        /\ REPLAY_DATA = pre.REPLAY_DATA
        /\ PreServices = <<>> =>
              /\ last.result = ErrNoReplayData
              /\ last.draws = <<>>
              /\ Cells = pre
        /\ (PreServices # <<>> /\ ~pre.ANIMATION_RUNNING) =>
              /\ LAST_SERVICE_COUNT = Len(PreServices)
              /\ \E texture \in BOOLEAN :
                    LET s == StartServiceAnimationOn(pre.GPU_RENDERER, pre.REPLAY_DATA,
                                                     pre.ANIMATION_RUNNING, pre.timers,
                                                     texture)
                    IN  /\ GPU_RENDERER = s.gpu
                        /\ ANIMATION_RUNNING = s.running
                        /\ timers = s.armed
                        /\ last.result = s.result
                        /\ last.draws = s.draws
        /\ (PreServices # <<>> /\ pre.ANIMATION_RUNNING) =>
              /\ last.result = Ok
              /\ last.draws = <<>>
              /\ ANIMATION_RUNNING
              /\ GPU_RENDERER = pre.GPU_RENDERER
              /\ timers = pre.timers
              /\ LAST_SERVICE_COUNT = Len(PreServices)

\* render_replay() during a rotation that has moved on from index 0, after an
\* ingestion changed the service count: only the count is recorded
C34_Witness ==
    /\ last.op = "render_replay"
    /\ pre.ANIMATION_RUNNING
    /\ pre.timers >= 1
    /\ PreIndex > 0
    /\ pre.LAST_SERVICE_COUNT # Len(PreServices)
    /\ LAST_SERVICE_COUNT = Len(PreServices)
    /\ CurIndex = PreIndex

----
(* parse_arrow_replay() of a file without id values (SpecIngest) *)

\* C35: a parse_arrow_replay that succeeds on a file with no id value at all
\* (no batch, no row, or no id column) leaves REPLAY_DATA present with job_id
\* the empty string, whatever job_id was recorded before, and leaves
\* allServiceIds and services as they were.
C35_NoIdValue ==
    (last.op = "parse_arrow_replay" /\ last.result = Ok /\ LastValues = <<>>) =>
        /\ REPLAY_DATA # None
        /\ CurJobId = ""
        /\ CurIds = PreIds
        /\ CurServices = PreServices

\* a file whose one batch has no id column, parsed after a job_id was recorded
\* with two services: the job_id is overwritten with ""
C35_Witness ==
    /\ last.op = "parse_arrow_replay"
    /\ last.result = Ok
    /\ last.chunk = Chunk(TRUE, <<NoIdBatch>>)
    /\ PreJobId # ""
    /\ Len(PreIds) = 2
    /\ CurJobId = ""
    /\ CurIds = PreIds

====
